---- MODULE Spec2Model ----
(***************************************************************************)
(* Model of montreal_forced_aligner/corpus/classes.py: the keyed          *)
(* Collection, the Speaker / File / Utterance entity graph, the utterance *)
(* naming algorithm, the comparison operators, snapshot/restore and the   *)
(* TextGrid branch of File.load_text.                                     *)
(*                                                                        *)
(* Strings are sequences of one-character strings, so that replace,       *)
(* startswith, strip, lower and the lexicographic order are computed.     *)
(* Times are naturals counted in units of 10^-(NDigits+1) seconds.        *)
(***************************************************************************)
EXTENDS Integers, Sequences, FiniteSets, TLC

VARIABLES
    coll,        \* Collection._data of the collection under test
    written,     \* history: name -> entity most recently written under it
    naming,      \* inputs and results of Utterance.name
    cmp,         \* inputs and results of the comparison operators
    speakers,    \* heap of Speaker objects
    utterances,  \* heap of Utterance objects
    file,        \* the File object
    restored,    \* the File rebuilt by __setstate__ from __getstate__
    lastOp,      \* the last operation applied to the entity graph
    tg,          \* the TextGrid being read by load_text
    parse,       \* position of load_text in the TextGrid
    store,       \* the File's paths and flags, the utterances' alignment
    out,         \* what save / construct_output_path wrote or returned
    audio,       \* the File's cached audio info and the collaborator's calls
    vocab        \* the Speakers' word_counts and word_set's result

vars == <<coll, written, naming, cmp, speakers, utterances, file, restored,
          lastOp, tg, parse, store, out, audio, vocab>>

(***************************************************************************)
(* Bounds                                                                  *)
(***************************************************************************)
NumIds == 3          \* distinct entity objects per name (collection spec)
MaxOther == 2        \* length of the argument of Collection.update

(***************************************************************************)
(* Sequence and string helpers                                             *)
(***************************************************************************)
Range(s) == {s[i] : i \in 1..Len(s)}

SeqsUpTo(S, n) == UNION {[1..k -> S] : k \in 0..n}

RECURSIVE ReplaceFrom(_, _, _)
ReplaceFrom(s, c, r) ==
    IF s = <<>> THEN <<>>
    ELSE (IF Head(s) = c THEN r ELSE <<Head(s)>>) \o ReplaceFrom(Tail(s), c, r)

\* str.replace(c, r) for a one-character pattern c
Replace(s, c, r) ==
    IF \A i \in 1..Len(s) : s[i] # c THEN s
    ELSE IF Len(r) = 1 THEN [i \in 1..Len(s) |-> IF s[i] = c THEN r[1] ELSE s[i]]
    ELSE ReplaceFrom(s, c, r)

StartsWith(s, p) ==
    /\ Len(p) <= Len(s)
    /\ SubSeq(s, 1, Len(p)) = p

(***************************************************************************)
(* Collection (classes.py 1047-1168)                                       *)
(* _data is a dict: a sequence of entries with distinct keys, in insertion *)
(* order; assigning to an existing key keeps its position.                 *)
(***************************************************************************)
EmptyCollection == <<>>

Keys(c) == {c[i].key : i \in 1..Len(c)}

KeyIndex(c, key) == CHOOSE i \in 1..Len(c) : c[i].key = key

Collection_contains(c, key) == key \in Keys(c)

Collection_getitem(c, key) == c[KeyIndex(c, key)].item

Collection_setitem_append(c, key, item) ==
    Append(c, [key |-> key, item |-> item])

Collection_setitem(c, key, item) ==
    IF key \in Keys(c)
    THEN [c EXCEPT ![KeyIndex(c, key)].item = item]
    ELSE Append(c, [key |-> key, item |-> item])

Collection_delitem(c, key) ==
    LET i == KeyIndex(c, key)
    IN  SubSeq(c, 1, i - 1) \o SubSeq(c, i + 1, Len(c))

Collection_len(c) == Len(c)

Collection_iter(c) == [i \in 1..Len(c) |-> c[i].item]

RECURSIVE Collection_update(_, _)
\* update from another Collection: dict.update(other._data)
Collection_update(c, other) ==
    IF other = <<>> THEN c
    ELSE Collection_update(
             Collection_setitem(c, Head(other).key, Head(other).item),
             Tail(other))

RECURSIVE Collection_update_items(_, _)
\* update from a list of entities: self._data[item.name] = item
Collection_update_items(c, items) ==
    IF items = <<>> THEN c
    ELSE Collection_update_items(
             Collection_setitem(c, Head(items).name, Head(items)),
             Tail(items))

\* add_speaker / add_file / add_utterance: self[x.name] = x
Collection_add(c, item) == Collection_setitem(c, item.name, item)

(***************************************************************************)
(* Specification of the keyed Collection                                   *)
(***************************************************************************)
CollNames == {<<"a">>, <<"b">>, <<"c">>}

Entities == [id : 1..NumIds, name : CollNames]

NoEntity == [id |-> 0, name |-> <<>>]

\* the Collections that can be passed to update
ValidCollections ==
    {Collection_update_items(EmptyCollection, items) :
         items \in SeqsUpTo(Entities, MaxOther)}

\* the entity of the last element of items named n, NoEntity if there is none
LastNamed(items, n, default) ==
    LET I == {i \in 1..Len(items) : items[i].name = n}
    IN  IF I = {} THEN default
        ELSE items[CHOOSE i \in I : \A j \in I : j <= i]

IdleNaming == [pc |-> "off"]
IdleCmp == [pc |-> "off"]
IdleFile == [name |-> <<>>, wav_path |-> FALSE, wav_duration |-> 0,
             wav_channels |-> 0,
             speaker_ordering |-> <<>>, utterances |-> EmptyCollection]
IdleRestored == [state |-> "none"]
IdleTg == <<>>
IdleParse == [pc |-> "off"]
IdleStore == [pc |-> "off"]
IdleOut == [pc |-> "off"]
IdleAudio == [pc |-> "off"]
IdleVocab == [pc |-> "off"]

OthersIdleLater ==
    /\ store = IdleStore /\ out = IdleOut /\ audio = IdleAudio /\ vocab = IdleVocab

UnchangedLater == UNCHANGED <<store, out, audio, vocab>>

OthersIdleColl ==
    /\ naming = IdleNaming /\ cmp = IdleCmp
    /\ speakers = <<>> /\ utterances = <<>> /\ file = IdleFile
    /\ restored = IdleRestored /\ lastOp = [op |-> "none"]
    /\ tg = IdleTg /\ parse = IdleParse
    /\ OthersIdleLater

InitColl ==
    /\ coll = EmptyCollection
    /\ written = [n \in CollNames |-> NoEntity]
    /\ OthersIdleColl

UnchangedRest ==
    UNCHANGED <<naming, cmp, speakers, utterances, file, restored, lastOp,
                tg, parse, store, out, audio, vocab>>

\* add_utterance / add_speaker / add_file
CollAdd ==
    \E e \in Entities :
        /\ coll' = Collection_add(coll, e)
        /\ written' = [written EXCEPT ![e.name] = e]
        /\ UnchangedRest

\* del collection[name]; a missing key raises KeyError and changes nothing
CollDelete ==
    \E n \in CollNames :
        /\ Collection_contains(coll, n)
        /\ coll' = Collection_delitem(coll, n)
        /\ written' = [written EXCEPT ![n] = NoEntity]
        /\ UnchangedRest

\* collection.update(other) with other a Collection
CollUpdate ==
    \E other \in ValidCollections :
        /\ other # EmptyCollection
        /\ coll' = Collection_update(coll, other)
        /\ written' = [n \in CollNames |->
                          LastNamed(Collection_iter(other), n, written[n])]
        /\ UnchangedRest

\* collection.update(other) with other a list of entities
CollUpdateItems ==
    \E items \in SeqsUpTo(Entities, MaxOther) :
        /\ items # <<>>
        /\ coll' = Collection_update_items(coll, items)
        /\ written' = [n \in CollNames |-> LastNamed(items, n, written[n])]
        /\ UnchangedRest

NextColl == CollAdd \/ CollDelete \/ CollUpdate \/ CollUpdateItems

SpecColl == InitColl /\ [][NextColl]_vars

\* C2: the collection stores exactly one entity per distinct name, it is
\* the entity most recently written under that name, and len is the number
\* of distinct names present.
C2_OnePerNameLastWrite ==
    /\ \A i, j \in 1..Len(coll) : coll[i].key = coll[j].key => i = j
    /\ \A i \in 1..Len(coll) :
          /\ coll[i].item = written[coll[i].key]
          /\ coll[i].item.name = coll[i].key
    /\ Keys(coll) = {n \in CollNames : written[n] # NoEntity}
    /\ Collection_len(coll) = Cardinality({n \in CollNames : written[n] # NoEntity})

\* a name was written twice and a different entity replaced the first
C2_Witness ==
    /\ Collection_len(coll) = 2
    /\ \E i \in 1..Len(coll) : coll[i].item.id = NumIds /\ coll[i].key = <<"a">>
    /\ lastOp = [op |-> "none"]

(***************************************************************************)
(* Numbers and their Python string form                                    *)
(* A boundary is None, an int, or a float; v is the int's value, or the    *)
(* float's value in units of 10^-(NDigits+1).                              *)
(***************************************************************************)
NDigits == 4

RECURSIVE Pow10(_)
Pow10(n) == IF n = 0 THEN 1 ELSE 10 * Pow10(n - 1)

Unit == Pow10(NDigits + 1)

None == [kind |-> "none", v |-> 0]
PyInt(n) == [kind |-> "int", v |-> n]
PyFloat(units) == [kind |-> "float", v |-> units]

\* the number's value in units, for numeric comparison (1 == 1.0 in Python)
NumVal(x) == IF x.kind = "int" THEN x.v * Unit ELSE x.v

DigitChar(d) == <<"0", "1", "2", "3", "4", "5", "6", "7", "8", "9">>[d + 1]

RECURSIVE NatStr(_)
NatStr(n) ==
    IF n < 10 THEN <<DigitChar(n)>>
    ELSE NatStr(n \div 10) \o <<DigitChar(n % 10)>>

RECURSIVE Padded(_, _)
Padded(n, w) ==
    IF w = 0 THEN <<>> ELSE Padded(n \div 10, w - 1) \o <<DigitChar(n % 10)>>

RECURSIVE StripZeros(_)
StripZeros(s) ==
    IF Len(s) > 1 /\ s[Len(s)] = "0"
    THEN StripZeros(SubSeq(s, 1, Len(s) - 1))
    ELSE s

\* repr of a float: shortest decimal, exponent form below 1e-4
FloatStr(v) ==
    IF 0 < v /\ v < 10
    THEN <<DigitChar(v), "e", "-", "0", DigitChar(NDigits + 1)>>
    ELSE NatStr(v \div Unit) \o <<".">> \o StripZeros(Padded(v % Unit, NDigits + 1))

\* f"{x}" of a boundary value
PyStr(x) == IF x.kind = "int" THEN NatStr(x.v) ELSE FloatStr(x.v)

(***************************************************************************)
(* Utterance.name (classes.py 1032-1041), Utterance.is_segment (984-987)   *)
(***************************************************************************)
Utterance_is_segment(begin, end) == begin # None /\ end # None

\* .replace(" ", "-space-").replace(".", "-").replace("_", "-")
Substitute(base) ==
    Replace(Replace(Replace(base, " ", <<"-", "s", "p", "a", "c", "e", "-">>),
                    ".", <<"-">>),
            "_", <<"-">>)

Utterance_name(file_name, speaker_name, begin, end) ==
    LET base0 == Substitute(file_name)
        base1 == IF ~StartsWith(base0, speaker_name \o <<"-">>)
                 THEN speaker_name \o <<"-">> \o base0
                 ELSE base0
        base2 == IF Utterance_is_segment(begin, end)
                 THEN base1 \o <<"-">> \o PyStr(begin) \o <<"-">> \o PyStr(end)
                 ELSE base1
    IN  Substitute(base2)

(***************************************************************************)
(* Specification of the naming algorithm                                   *)
(***************************************************************************)
NamingFileNames == {<<"f", "_", "1">>, <<"s", "-", "f", " ", "2">>}
NamingSpeakerNames == {<<"s">>, <<"t", ".", "x">>}
NamingBoundaries ==
    {PyInt(1), PyInt(2), PyFloat(Unit), PyFloat(2 * Unit),
     PyFloat(Unit + 5 * (Unit \div 10)), PyFloat(5 * Unit + 2 * (Unit \div 10))}

OthersIdleNaming ==
    /\ coll = EmptyCollection /\ written = [n \in CollNames |-> NoEntity]
    /\ cmp = IdleCmp
    /\ speakers = <<>> /\ utterances = <<>> /\ file = IdleFile
    /\ restored = IdleRestored /\ lastOp = [op |-> "none"]
    /\ tg = IdleTg /\ parse = IdleParse
    /\ OthersIdleLater

InitNaming ==
    /\ naming \in [pc : {"in"}, file_name : NamingFileNames,
                   speaker_name : NamingSpeakerNames,
                   begin1 : NamingBoundaries, end1 : NamingBoundaries,
                   begin2 : NamingBoundaries, end2 : NamingBoundaries]
    /\ OthersIdleNaming

\* read .name of two utterances of the same file and speaker
ComputeNames ==
    /\ naming.pc = "in"
    /\ naming' = [pc |-> "out",
                  file_name |-> naming.file_name,
                  speaker_name |-> naming.speaker_name,
                  begin1 |-> naming.begin1, end1 |-> naming.end1,
                  begin2 |-> naming.begin2, end2 |-> naming.end2,
                  name1 |-> Utterance_name(naming.file_name, naming.speaker_name,
                                           naming.begin1, naming.end1),
                  name2 |-> Utterance_name(naming.file_name, naming.speaker_name,
                                           naming.begin2, naming.end2)]
    /\ UNCHANGED <<coll, written, cmp, speakers, utterances, file, restored,
                   lastOp, tg, parse, store, out, audio, vocab>>

NextNaming == ComputeNames

SpecNaming == InitNaming /\ [][NextNaming]_vars

\* C4: for a fixed file and speaker, identical (begin, end) give the
\* identical name, and utterances that differ only in (begin, end), both
\* set, get different names.
C4_BoundaryInjective ==
    naming.pc = "out" =>
        LET same == /\ NumVal(naming.begin1) = NumVal(naming.begin2)
                    /\ NumVal(naming.end1) = NumVal(naming.end2)
                    /\ naming.begin1.kind = naming.begin2.kind
                    /\ naming.end1.kind = naming.end2.kind
            differ == \/ NumVal(naming.begin1) # NumVal(naming.begin2)
                      \/ NumVal(naming.end1) # NumVal(naming.end2)
        IN  /\ same => naming.name1 = naming.name2
            /\ differ => naming.name1 # naming.name2

(***************************************************************************)
(* Comparison of Speaker, File and Utterance (classes.py 157-195, 352-390, *)
(* 905-943).  The three classes carry the same code; other is an entity of *)
(* the same class or a str.                                                *)
(***************************************************************************)
Ord(c) == CASE c = "A" -> 65 [] c = "a" -> 97 [] c = "b" -> 98

RECURSIVE StrLess(_, _)
\* Python's str <: lexicographic by code point
StrLess(s, t) ==
    IF t = <<>> THEN FALSE
    ELSE IF s = <<>> THEN TRUE
    ELSE IF Head(s) # Head(t) THEN Ord(Head(s)) < Ord(Head(t))
    ELSE StrLess(Tail(s), Tail(t))

StrLessEq(s, t) == s = t \/ StrLess(s, t)

PyBool(b) == IF b THEN "True" ELSE "False"

AsEntity(name) == [type |-> "entity", name |-> name]
AsStr(name) == [type |-> "str", name |-> name]

Named_eq(self_name, other) ==
    IF other.type = "entity" THEN PyBool(other.name = self_name)
    ELSE PyBool(self_name = other.name)

Named_lt(self_name, other) ==
    IF other.type = "entity" THEN PyBool(StrLess(other.name, self_name))
    ELSE PyBool(StrLess(self_name, other.name))

Named_gt(self_name, other) ==
    IF other.type = "entity" THEN PyBool(StrLess(self_name, other.name))
    ELSE PyBool(StrLess(other.name, self_name))

\* the explicit methods __lte__ and __gte__
Named_lte(self_name, other) ==
    IF other.type = "entity" THEN PyBool(StrLessEq(other.name, self_name))
    ELSE PyBool(StrLessEq(self_name, other.name))

Named_gte(self_name, other) ==
    IF other.type = "entity" THEN PyBool(StrLessEq(self_name, other.name))
    ELSE PyBool(StrLessEq(other.name, self_name))

\* a <= b and a >= b: the classes define __lte__ and __gte__, not __le__ and
\* __ge__, so neither operand implements the operator
Named_le_operator(self_name, other) == "TypeError"
Named_ge_operator(self_name, other) == "TypeError"

CmpNames == SeqsUpTo({"A", "a", "b"}, 2)
CmpKinds == {"Speaker", "File", "Utterance"}

OthersIdleCmp ==
    /\ coll = EmptyCollection /\ written = [n \in CollNames |-> NoEntity]
    /\ naming = IdleNaming
    /\ speakers = <<>> /\ utterances = <<>> /\ file = IdleFile
    /\ restored = IdleRestored /\ lastOp = [op |-> "none"]
    /\ tg = IdleTg /\ parse = IdleParse
    /\ OthersIdleLater

InitCmp ==
    /\ cmp \in [pc : {"in"}, kind : CmpKinds, a : CmpNames, b : CmpNames]
    /\ OthersIdleCmp

\* evaluate a == b, a < b, a > b, a <= b, a >= b against the entity b and
\* against the string b.name
Compare ==
    /\ cmp.pc = "in"
    /\ cmp' = [pc |-> "out", kind |-> cmp.kind, a |-> cmp.a, b |-> cmp.b,
               eq |-> Named_eq(cmp.a, AsEntity(cmp.b)),
               lt |-> Named_lt(cmp.a, AsEntity(cmp.b)),
               gt |-> Named_gt(cmp.a, AsEntity(cmp.b)),
               le |-> Named_le_operator(cmp.a, AsEntity(cmp.b)),
               ge |-> Named_ge_operator(cmp.a, AsEntity(cmp.b)),
               lte |-> Named_lte(cmp.a, AsEntity(cmp.b)),
               gte |-> Named_gte(cmp.a, AsEntity(cmp.b)),
               eq_str |-> Named_eq(cmp.a, AsStr(cmp.b)),
               lt_str |-> Named_lt(cmp.a, AsStr(cmp.b)),
               gt_str |-> Named_gt(cmp.a, AsStr(cmp.b)),
               le_str |-> Named_le_operator(cmp.a, AsStr(cmp.b)),
               ge_str |-> Named_ge_operator(cmp.a, AsStr(cmp.b)),
               lte_str |-> Named_lte(cmp.a, AsStr(cmp.b)),
               gte_str |-> Named_gte(cmp.a, AsStr(cmp.b))]
    /\ UNCHANGED <<coll, written, naming, speakers, utterances, file,
                   restored, lastOp, tg, parse, store, out, audio, vocab>>

NextCmp == Compare

SpecCmp == InitCmp /\ [][NextCmp]_vars

\* C7: comparison of two entities of a kind is the total order of their
\* names: a == b iff the names are equal, a < b iff a.name < b.name,
\* a > b iff a.name > b.name, <= and >= accordingly, and each agrees with
\* the comparison against the bare string b.name.
C7_TotalOrderByName ==
    cmp.pc = "out" =>
        /\ cmp.eq = PyBool(cmp.a = cmp.b)
        /\ cmp.lt = PyBool(StrLess(cmp.a, cmp.b))
        /\ cmp.gt = PyBool(StrLess(cmp.b, cmp.a))
        /\ cmp.le = PyBool(StrLessEq(cmp.a, cmp.b))
        /\ cmp.ge = PyBool(StrLessEq(cmp.b, cmp.a))
        /\ cmp.eq = cmp.eq_str
        /\ cmp.lt = cmp.lt_str
        /\ cmp.gt = cmp.gt_str
        /\ cmp.le = cmp.le_str
        /\ cmp.ge = cmp.ge_str

(***************************************************************************)
(* The entity graph: Speaker, File, Utterance                              *)
(* A world w is the heap: w.speakers and w.utterances are sequences of     *)
(* objects (an object's id is its index), w.file is the File.  Collections *)
(* of utterances hold utterance ids under the utterance's name.            *)
(***************************************************************************)
World == [speakers |-> speakers, utterances |-> utterances, file |-> file]

\* Speaker.__init__
Speaker_init(name) == [name |-> name, utterances |-> EmptyCollection]

\* File.__init__ and the audio info the collaborator reports for wav_path
File_init(name, has_wav, dur, channels) ==
    [name |-> name, wav_path |-> has_wav, wav_duration |-> dur,
     wav_channels |-> channels,
     speaker_ordering |-> <<>>, utterances |-> EmptyCollection]

\* Utterance.name for the arguments met most often, evaluated once
NameArgs ==
    {<<f, n, b[1], b[2]>> :
        f \in {<<"f">>},
        n \in {<<"s">>, <<"t">>},
        b \in {<<None, None>>, <<PyFloat(0), PyFloat(Unit)>>}}

NameTable == [k \in NameArgs |-> Utterance_name(k[1], k[2], k[3], k[4])]

\* Utterance.name of the object u
UName(w, u) ==
    LET k == <<w.utterances[u].file_name, w.utterances[u].speaker_name,
               w.utterances[u].begin, w.utterances[u].end>>
    IN  IF k \in NameArgs THEN NameTable[k]
        ELSE Utterance_name(k[1], k[2], k[3], k[4])

\* Utterance.__init__: a new object at the end of the heap
Utterance_init(w, s, begin, end, text) ==
    [w EXCEPT !.utterances =
        Append(@, [speaker |-> s, file |-> "file",
                   file_name |-> w.file.name,
                   speaker_name |-> w.speakers[s].name,
                   begin |-> begin, end |-> end, text |-> text])]

Speaker_add_utterance(w, s, u) ==
    [w EXCEPT !.speakers[s].utterances = Collection_setitem(@, UName(w, u), u)]

Speaker_delete_utterance(w, s, u) ==
    [w EXCEPT !.speakers[s].utterances = Collection_delitem(@, UName(w, u))]

RECURSIVE AddAll(_, _, _)
\* for u in items: self.add_utterance(u)
AddAll(w, s, items) ==
    IF items = <<>> THEN w
    ELSE AddAll(Speaker_add_utterance(w, s, Head(items)), s, Tail(items))

Speaker_merge(w, a, b) ==
    LET w1 == AddAll(w, a, Collection_iter(w.speakers[b].utterances))
    IN  [w1 EXCEPT !.speakers[b].utterances = EmptyCollection]

\* speaker in self.speaker_ordering: list membership by __eq__, i.e. by name
InOrdering(w, s) ==
    \E i \in 1..Len(w.file.speaker_ordering) :
        w.speakers[w.file.speaker_ordering[i]].name = w.speakers[s].name

File_add_speaker(w, s) ==
    IF ~InOrdering(w, s)
    THEN [w EXCEPT !.file.speaker_ordering = Append(@, s)]
    ELSE w

File_add_utterance_no_speaker(w, u) ==
    [w EXCEPT !.file.utterances = Collection_setitem(@, UName(w, u), u)]

File_add_utterance(w, u) ==
    File_add_speaker(
        [w EXCEPT !.file.utterances = Collection_setitem(@, UName(w, u), u)],
        w.utterances[u].speaker)

File_delete_utterance(w, u) ==
    [w EXCEPT !.file.utterances = Collection_delitem(@, UName(w, u))]

Utterance_set_speaker(w, u, s) ==
    LET w1 == [w EXCEPT !.utterances[u].speaker = s]
        w2 == Speaker_add_utterance(w1, s, u)
    IN  File_add_utterance(w2, u)

(***************************************************************************)
(* Snapshot and restore (classes.py 142-151, 414-448, 863-895)             *)
(***************************************************************************)
Speaker_getstate(sp) == [name |-> sp.name]

Utterance_getstate(ut) ==
    [file_name |-> ut.file_name, speaker_name |-> ut.speaker_name,
     begin |-> ut.begin, end |-> ut.end, text |-> ut.text]

\* the unpickled Utterance has neither a speaker nor a file attribute yet
Utterance_setstate(st) ==
    [speaker |-> 0, file |-> "unset",
     file_name |-> st.file_name, speaker_name |-> st.speaker_name,
     begin |-> st.begin, end |-> st.end, text |-> st.text]

File_getstate(w) ==
    [name |-> w.file.name,
     wav_path |-> w.file.wav_path,
     wav_duration |-> w.file.wav_duration,
     wav_channels |-> w.file.wav_channels,
     speaker_ordering |->
         [i \in 1..Len(w.file.speaker_ordering) |->
             Speaker_getstate(w.speakers[w.file.speaker_ordering[i]])],
     utterances |->
         [i \in 1..Len(w.file.utterances) |->
             Utterance_getstate(w.utterances[w.file.utterances[i].item])]]

RECURSIVE LinkSpeakers(_, _, _)
\* for s in self.speaker_ordering: if s.name == u.speaker_name: ...
LinkSpeakers(w, u, i) ==
    IF i > Len(w.file.speaker_ordering) THEN w
    ELSE LET s == w.file.speaker_ordering[i]
         IN  IF w.speakers[s].name = w.utterances[u].speaker_name
             THEN LinkSpeakers(
                      Speaker_add_utterance(
                          [w EXCEPT !.utterances[u].speaker = s], s, u),
                      u, i + 1)
             ELSE LinkSpeakers(w, u, i + 1)

RECURSIVE RelinkFrom(_, _)
\* for u in state["utterances"]; stops at the utterance whose speaker
\* attribute was never set (AttributeError in add_utterance)
RelinkFrom(w, u) ==
    IF u > Len(w.utterances) THEN [world |-> w, error |-> FALSE]
    ELSE LET w1 == [w EXCEPT !.utterances[u].file = "file"]
             w2 == LinkSpeakers(w1, u, 1)
         IN  IF w2.utterances[u].speaker = 0
             THEN [world |-> w2, error |-> TRUE]
             ELSE RelinkFrom(File_add_utterance(w2, u), u + 1)

File_setstate(st) ==
    LET n == Len(st.speaker_ordering)
        w0 == [speakers |-> [i \in 1..n |->
                                Speaker_init(st.speaker_ordering[i].name)],
               utterances |-> [i \in 1..Len(st.utterances) |->
                                  Utterance_setstate(st.utterances[i])],
               file |-> [name |-> st.name, wav_path |-> st.wav_path,
                         wav_duration |-> st.wav_duration,
                         wav_channels |-> st.wav_channels,
                         speaker_ordering |-> [i \in 1..n |-> i],
                         utterances |-> EmptyCollection]]
    IN  RelinkFrom(w0, 1)

(***************************************************************************)
(* Text of an interval label                                               *)
(***************************************************************************)
LowerChar(c) ==
    CASE c = "A" -> "a" [] c = "B" -> "b" [] c = "H" -> "h" [] c = "N" -> "n"
      [] OTHER -> c

\* str.lower()
Lower(s) == [i \in 1..Len(s) |-> LowerChar(s[i])]

RECURSIVE LStrip(_)
LStrip(s) == IF s # <<>> /\ Head(s) = " " THEN LStrip(Tail(s)) ELSE s

RECURSIVE RStrip(_)
RStrip(s) ==
    IF s # <<>> /\ s[Len(s)] = " " THEN RStrip(SubSeq(s, 1, Len(s) - 1)) ELSE s

\* str.strip()
Strip(s) == LStrip(RStrip(s))

RECURSIVE SplitFrom(_, _)
\* str.split(): the maximal runs of non-blank characters; word is the run
\* being read
SplitFrom(s, word) ==
    IF s = <<>> THEN (IF word = <<>> THEN <<>> ELSE <<word>>)
    ELSE IF Head(s) = " "
         THEN (IF word = <<>> THEN <<>> ELSE <<word>>) \o SplitFrom(Tail(s), <<>>)
         ELSE SplitFrom(Tail(s), Append(word, Head(s)))

\* helper.parse_transcription with no sanitize function: text.split()
parse_transcription(text) == SplitFrom(text, <<>>)

RECURSIVE Join(_)
\* " ".join(words)
Join(words) ==
    IF words = <<>> THEN <<>>
    ELSE IF Len(words) = 1 THEN words[1]
    ELSE words[1] \o <<" ">> \o Join(Tail(words))

(***************************************************************************)
(* Audio info, rounding and clamping (classes.py 648-649, 701-717)         *)
(***************************************************************************)
\* File.duration: the int 0 without a sound file
File_duration(f) == IF ~f.wav_path THEN PyInt(0) ELSE PyFloat(f.wav_duration)

File_num_channels(f) == IF ~f.wav_path THEN 0 ELSE f.wav_channels

\* round(x, NDigits) of the float x: the nearest multiple of 10^-NDigits;
\* for a decimal tie the float's binary value decides, either neighbour
RoundSet(x) ==
    LET low == x - (x % 10)
    IN  IF (x % 10) * 2 < 10 THEN {low}
        ELSE IF (x % 10) * 2 > 10 THEN {low + 10}
        ELSE {low, low + 10}

\* min(a, b): the first argument unless the second is smaller
PyMin(a, b) == IF NumVal(b) < NumVal(a) THEN b ELSE a

ClampEnd_none(end, duration) == end

\* end = min(end, self.duration)
ClampEnd(end, duration) == PyMin(end, duration)

(***************************************************************************)
(* File.load_text, TextGrid branch (classes.py 614-653)                    *)
(* A TextGrid is the sequence of its tiers in tierNameList order; a tier   *)
(* has a name, a kind and, for an interval tier, its entryList.  st is the *)
(* world together with the position p of the two loops.                    *)
(***************************************************************************)
IsNotes(tier) == Lower(tier.name) = <<"n", "o", "t", "e", "s">>

Skipped(tier) == IsNotes(tier) \/ tier.kind # "interval"

\* entry of load_text up to the first tier of the loop
LoadText_open(st, tgv) ==
    IF Len(tgv) = 0 THEN [st EXCEPT !.p.pc = "error"]
    ELSE IF File_num_channels(st.w.file) > 2 THEN [st EXCEPT !.p.pc = "error"]
    ELSE [st EXCEPT !.p.pc = "tier", !.p.ti = 1]

LoadText_tier_keep_notes(st, tgv) ==
    IF st.p.ti > Len(tgv) THEN [st EXCEPT !.p.pc = "done"]
    ELSE LET tier == tgv[st.p.ti]
         IN  IF tier.kind # "interval" THEN [st EXCEPT !.p.ti = @ + 1]
             ELSE IF st.p.root = 0
             THEN LET w1 == [st.w EXCEPT !.speakers =
                                Append(@, Speaker_init(Strip(tier.name)))]
                      s == Len(w1.speakers)
                  IN  [w |-> File_add_speaker(w1, s),
                       p |-> [st.p EXCEPT !.pc = "entry", !.ei = 1, !.cur = s]]
             ELSE [st EXCEPT !.p.pc = "entry", !.p.ei = 1, !.p.cur = st.p.root]

\* head of the loop over tiers: skip, or settle the tier's speaker
LoadText_tier(st, tgv) ==
    IF st.p.ti > Len(tgv) THEN [st EXCEPT !.p.pc = "done"]
    ELSE LET tier == tgv[st.p.ti]
         IN  IF IsNotes(tier) THEN [st EXCEPT !.p.ti = @ + 1]
             ELSE IF tier.kind # "interval" THEN [st EXCEPT !.p.ti = @ + 1]
             ELSE IF st.p.root = 0
             THEN LET w1 == [st.w EXCEPT !.speakers =
                                Append(@, Speaker_init(Strip(tier.name)))]
                      s == Len(w1.speakers)
                  IN  [w |-> File_add_speaker(w1, s),
                       p |-> [st.p EXCEPT !.pc = "entry", !.ei = 1, !.cur = s]]
             ELSE [st EXCEPT !.p.pc = "entry", !.p.ei = 1, !.p.cur = st.p.root]

\* body of the loop over entries after the stop check: rb and re are the
\* rounded begin and end
LoadText_entry(st, tgv, rb, re) ==
    LET entry == tgv[st.p.ti].entries[st.p.ei]
        words == parse_transcription(Strip(Lower(entry.text)))
        next == [st.p EXCEPT !.ei = @ + 1]
    IN  IF words = <<>> THEN [st EXCEPT !.p = next]
        ELSE LET end == ClampEnd(PyFloat(re), File_duration(st.w.file))
                 w1 == Utterance_init(st.w, st.p.cur, PyFloat(rb), end, Join(words))
                 u == Len(w1.utterances)
             IN  [w |-> File_add_utterance(w1, u),
                  p |-> [next EXCEPT !.produced =
                            Append(@, [u |-> u, ti |-> st.p.ti, ei |-> st.p.ei])]]

LoadText_interval_poll_after(st, tgv, stop, rb, re) ==
    IF st.p.ei > Len(tgv[st.p.ti].entries)
    THEN [st EXCEPT !.p.pc = "tier", !.p.ti = @ + 1]
    ELSE LET polled == [st EXCEPT !.p.polls = @ + 1]
         IN  IF stop
             THEN [LoadText_entry(polled, tgv, rb, re) EXCEPT !.p.pc = "stopped"]
             ELSE LoadText_entry(polled, tgv, rb, re)

\* head of the loop over entries: next tier when exhausted; else poll
\* stop_check, whose answer is stop, and return or run the body
LoadText_interval(st, tgv, stop, rb, re) ==
    IF st.p.ei > Len(tgv[st.p.ti].entries)
    THEN [st EXCEPT !.p.pc = "tier", !.p.ti = @ + 1]
    ELSE LET polled == [st EXCEPT !.p.polls = @ + 1]
         IN  IF stop THEN [polled EXCEPT !.p.pc = "stopped"]
             ELSE LoadText_entry(polled, tgv, rb, re)

(***************************************************************************)
(* Specification of the entity graph                                       *)
(***************************************************************************)
MaxSpk == 2          \* Speaker objects on the heap
MaxUtt == 1          \* Utterance objects on the heap

GraphSpeakerNames == <<(<<"s">>), (<<"t">>)>>
GraphFileName == <<"f">>
GraphBoundaries == {<<None, None>>}
GraphTexts == {<<"h", "i">>}

OthersIdleGraph ==
    /\ coll = EmptyCollection /\ written = [n \in CollNames |-> NoEntity]
    /\ naming = IdleNaming /\ cmp = IdleCmp
    /\ tg = IdleTg /\ parse = IdleParse
    /\ OthersIdleLater

UnchangedOthersGraph ==
    UNCHANGED <<coll, written, naming, cmp, tg, parse, store, out, audio, vocab>>

NoOp == [op |-> "none"]

InitGraph ==
    /\ speakers = <<>>
    /\ utterances = <<>>
    /\ file = File_init(GraphFileName, TRUE, 2 * Unit, 1)
    /\ restored = IdleRestored
    /\ lastOp = NoOp
    /\ OthersIdleGraph

Commit(w) ==
    /\ speakers' = w.speakers
    /\ utterances' = w.utterances
    /\ file' = w.file

SpkIds == 1..Len(speakers)
UttIds == 1..Len(utterances)

\* Speaker(name): the names alternate, so that a third object shares the
\* name of the first
NewSpeaker ==
    /\ Len(speakers) < MaxSpk
    /\ speakers' = Append(speakers,
                          Speaker_init(GraphSpeakerNames[(Len(speakers) % 2) + 1]))
    /\ lastOp' = NoOp
    /\ restored' = IdleRestored
    /\ UNCHANGED <<utterances, file>>
    /\ UnchangedOthersGraph

NewUtterance ==
    \E s \in SpkIds, b \in GraphBoundaries, text \in GraphTexts :
        /\ Len(utterances) < MaxUtt
        /\ Commit(Utterance_init(World, s, b[1], b[2], text))
        /\ lastOp' = NoOp
        /\ restored' = IdleRestored
        /\ UnchangedOthersGraph

FileAddSpeaker ==
    \E s \in SpkIds :
        /\ Commit(File_add_speaker(World, s))
        /\ lastOp' = NoOp
        /\ restored' = IdleRestored
        /\ UnchangedOthersGraph

FileAddUtterance ==
    \E u \in UttIds :
        /\ Commit(File_add_utterance(World, u))
        /\ lastOp' = NoOp
        /\ restored' = IdleRestored
        /\ UnchangedOthersGraph

\* del of a missing key raises KeyError and changes nothing
FileDeleteUtterance ==
    \E u \in UttIds :
        /\ Collection_contains(file.utterances, UName(World, u))
        /\ Commit(File_delete_utterance(World, u))
        /\ lastOp' = NoOp
        /\ restored' = IdleRestored
        /\ UnchangedOthersGraph

\* the corpus registers an utterance with its speaker
SpeakerAddUtterance ==
    \E s \in SpkIds, u \in UttIds :
        /\ utterances[u].speaker = s
        /\ Commit(Speaker_add_utterance(World, s, u))
        /\ lastOp' = NoOp
        /\ restored' = IdleRestored
        /\ UnchangedOthersGraph

SpeakerDeleteUtterance ==
    \E s \in SpkIds, u \in UttIds :
        /\ Collection_contains(speakers[s].utterances, UName(World, u))
        /\ Commit(Speaker_delete_utterance(World, s, u))
        /\ lastOp' = NoOp
        /\ restored' = IdleRestored
        /\ UnchangedOthersGraph

SetSpeaker ==
    \E u \in UttIds, s \in SpkIds :
        /\ Commit(Utterance_set_speaker(World, u, s))
        /\ lastOp' = NoOp
        /\ restored' = IdleRestored
        /\ UnchangedOthersGraph

Merge ==
    \E a \in SpkIds, b \in SpkIds :
        /\ Commit(Speaker_merge(World, a, b))
        /\ lastOp' = NoOp
        /\ restored' = IdleRestored
        /\ UnchangedOthersGraph

\* pickle round trip of the File: restored is the graph that __setstate__
\* builds beside the original one, looked at until the next operation
Restore ==
    LET r == File_setstate(File_getstate(World))
    IN  /\ ~r.error
        /\ restored' = [state |-> "ok", world |-> r.world]
        /\ lastOp' = NoOp
        /\ UNCHANGED <<speakers, utterances, file>>
        /\ UnchangedOthersGraph

\* __setstate__ raises AttributeError: no File is produced
RestoreError ==
    LET r == File_setstate(File_getstate(World))
    IN  /\ r.error
        /\ restored' = [state |-> "error"]
        /\ lastOp' = NoOp
        /\ UNCHANGED <<speakers, utterances, file>>
        /\ UnchangedOthersGraph

\* the position of load_text at its entry; root is the root speaker's id,
\* 0 for None
ParseStart(root) ==
    [pc |-> "start", ti |-> 1, ei |-> 1, root |-> root, cur |-> 0,
     polls |-> 0, produced |-> <<>>]

RECURSIVE LoadText_textgrid(_, _, _)
\* the whole TextGrid branch; stop_check answers true at its poll number
\* stopAt (never for 0)
LoadText_textgrid(st, tgv, stopAt) ==
    IF st.p.pc = "start" THEN LoadText_textgrid(LoadText_open(st, tgv), tgv, stopAt)
    ELSE IF st.p.pc = "tier" THEN LoadText_textgrid(LoadText_tier(st, tgv), tgv, stopAt)
    ELSE IF st.p.pc = "entry"
    THEN LET more == st.p.ei <= Len(tgv[st.p.ti].entries)
             entry == tgv[st.p.ti].entries[st.p.ei]
             rb == IF more THEN CHOOSE r \in RoundSet(entry.begin) : TRUE ELSE 0
             re == IF more THEN CHOOSE r \in RoundSet(entry.end) : TRUE ELSE 0
         IN  LoadText_textgrid(
                 LoadText_interval(st, tgv, st.p.polls + 1 = stopAt, rb, re),
                 tgv, stopAt)
    ELSE st

\* the "lab" branch (text is the joined words of the transcript) and the
\* branch without a transcript (text is None); both need a root speaker
LoadText_single(w, root, text) ==
    LET w1 == Utterance_init(w, root, None, None, text)
    IN  File_add_utterance(w1, Len(w1.utterances))

\* the TextGrids read in the entity-graph specification
GraphIntervals == {[begin |-> 0, end |-> Unit, text |-> <<"H", "i">>]}

\* one tier with an interval; a "Notes" tier followed by an empty tier
GraphTextGrids ==
    {<<[name |-> <<"s", " ">>, kind |-> "interval",
        entries |-> <<CHOOSE e \in GraphIntervals : TRUE>>]>>,
     <<[name |-> <<"N", "o", "t", "e", "s">>, kind |-> "interval",
        entries |-> <<CHOOSE e \in GraphIntervals : TRUE>>],
       [name |-> <<"s">>, kind |-> "interval", entries |-> <<>>]>>}

NoText == <<"N", "o", "n", "e">>

\* File.load_text from start to return, called as parse_file does: on the
\* File just constructed, after at most the root speaker
LoadText ==
    \E type \in {"textgrid", "lab", "none"}, root \in {0} \cup SpkIds :
        /\ utterances = <<>>
        /\ Len(speakers) <= 1
        /\ file.speaker_ordering = <<>>
        /\ \/ /\ type = "textgrid"
              /\ \E tgv \in GraphTextGrids, stopAt \in 0..1 :
                    LET st == LoadText_textgrid(
                                  [w |-> World, p |-> ParseStart(root)], tgv, stopAt)
                    IN  /\ Len(st.w.speakers) <= MaxSpk
                        /\ Len(st.w.utterances) <= MaxUtt
                        /\ Commit(st.w)
           \/ /\ type = "lab"
              /\ root # 0
              /\ Len(utterances) < MaxUtt
              /\ Commit(LoadText_single(World, root, <<"h", "i">>))
           \/ /\ type = "none"
              /\ root # 0
              /\ Len(utterances) < MaxUtt
              /\ Commit(LoadText_single(World, root, NoText))
        /\ lastOp' = NoOp
        /\ restored' = IdleRestored
        /\ UnchangedOthersGraph

NextGraph ==
    \/ NewSpeaker \/ NewUtterance
    \/ FileAddSpeaker \/ FileAddUtterance \/ FileDeleteUtterance
    \/ SpeakerAddUtterance \/ SpeakerDeleteUtterance
    \/ SetSpeaker \/ Merge
    \/ Restore \/ RestoreError
    \/ LoadText

SpecGraph == InitGraph /\ [][NextGraph]_vars

OrderingNames(w) ==
    [i \in 1..Len(w.file.speaker_ordering) |->
        w.speakers[w.file.speaker_ordering[i]].name]

\* names of the owning speakers of the file's utterances, in iteration order
OwnerNames(w) ==
    [i \in 1..Len(w.file.utterances) |->
        w.speakers[w.utterances[w.file.utterances[i].item].speaker].name]

\* the elements of q, each once, in order of first occurrence
RECURSIVE Distinct(_)
Distinct(q) ==
    IF q = <<>> THEN <<>>
    ELSE LET d == Distinct(SubSeq(q, 1, Len(q) - 1))
         IN  IF q[Len(q)] \in Range(d) THEN d ELSE Append(d, q[Len(q)])

IsPrefix(p, q) == Len(p) <= Len(q) /\ SubSeq(q, 1, Len(p)) = p

\* C1 as stated: speaker_ordering is exactly the distinct speakers of the
\* utterances currently in the file, each once, in order of first utterance.
C1_ExactlySpeakersOfUtterances ==
    OrderingNames(World) = Distinct(OwnerNames(World))

C1_Registered ==
    /\ \A i, j \in 1..Len(file.speaker_ordering) :
          OrderingNames(World)[i] = OrderingNames(World)[j] => i = j
    /\ Range(OwnerNames(World)) \subseteq Range(OrderingNames(World))

\* C1 amended: speaker_ordering holds each speaker name at most once, holds
\* the speaker of every utterance currently in the file, and only grows at
\* its end (order of first registration); it may hold speakers that have no
\* utterance in the file.
C1_SpeakersRegistered ==
    /\ []C1_Registered
    /\ [][IsPrefix(OrderingNames(World),
                   [i \in 1..Len(file'.speaker_ordering) |->
                       speakers'[file'.speaker_ordering[i]].name])]_vars

\* an utterance was moved to a second speaker: both speakers are registered,
\* the utterance's speaker is the one registered last
C1_Witness ==
    /\ Len(file.speaker_ordering) = 2
    /\ Len(file.utterances) = 1
    /\ utterances[file.utterances[1].item].speaker = file.speaker_ordering[2]

IdentityFromOwners(w) ==
    \A u \in 1..Len(w.utterances) :
        /\ w.utterances[u].speaker_name = w.speakers[w.utterances[u].speaker].name
        /\ w.utterances[u].file_name = w.file.name
        /\ UName(w, u) =
               Utterance_name(w.file.name,
                              w.speakers[w.utterances[u].speaker].name,
                              w.utterances[u].begin, w.utterances[u].end)

\* C3: in every reachable state an utterance's speaker_name and file_name
\* are the names of its current owning speaker and file, so its name is the
\* naming algorithm's result for the owners' names and the boundaries.
C3_IdentityFromOwners ==
    /\ IdentityFromOwners(World)
    /\ restored.state = "ok" => IdentityFromOwners(restored.world)

\* C5: restoring a snapshot gives an equivalent File: same name, same
\* utterance names and speaker_ordering names in the same order, every
\* utterance linked to the restored File and to the restored speaker named
\* as its owning speaker before the snapshot, which holds the utterance.
C5_RestoreEquivalent ==
    restored.state # "none" =>
        /\ restored.state = "ok"
        /\ LET r == restored.world
           IN  /\ r.file.name = file.name
               /\ OrderingNames(r) = OrderingNames(World)
               /\ Len(r.file.utterances) = Len(file.utterances)
               /\ \A i \in 1..Len(file.utterances) :
                     LET u == r.file.utterances[i].item
                         s == r.utterances[u].speaker
                     IN  /\ r.file.utterances[i].key = file.utterances[i].key
                         /\ UName(r, u) = file.utterances[i].key
                         /\ r.utterances[u].file = "file"
                         /\ s \in Range(r.file.speaker_ordering)
                         /\ r.speakers[s].name = OwnerNames(World)[i]
                         /\ Collection_contains(r.speakers[s].utterances,
                                                UName(r, u))
                         /\ Collection_getitem(r.speakers[s].utterances,
                                               UName(r, u)) = u

\* C6: after a.merge(b), a and b two speakers, b's collection is empty and
\* every utterance that was in it is in a's collection and is owned by a.
C6_MergeReassigns ==
    [][\A a, b \in SpkIds :
          (/\ a # b
           /\ speakers' = Speaker_merge(World, a, b).speakers
           /\ utterances' = Speaker_merge(World, a, b).utterances
           /\ file' = Speaker_merge(World, a, b).file) =>
          /\ speakers'[b].utterances = EmptyCollection
          /\ \A i \in 1..Len(speakers[b].utterances) :
                LET e == speakers[b].utterances[i]
                IN  /\ Collection_contains(speakers'[a].utterances, e.key)
                    /\ Collection_getitem(speakers'[a].utterances, e.key) = e.item
                    /\ utterances'[e.item].speaker = a
                    /\ utterances'[e.item].speaker_name = speakers'[a].name]_vars

(***************************************************************************)
(* Paths: os.path.join, basename, splitext and str.replace on strings      *)
(***************************************************************************)
\* an optional string: None, or the string s
NoStr == [some |-> FALSE, s |-> <<>>]
Str(s) == [some |-> TRUE, s |-> s]

\* the last position of the character c in p, 0 when there is none
LastIndexOf(p, c) ==
    IF \E i \in 1..Len(p) : p[i] = c
    THEN CHOOSE i \in 1..Len(p) : p[i] = c /\ \A j \in (i + 1)..Len(p) : p[j] # c
    ELSE 0

\* os.path.basename
Basename(p) == SubSeq(p, LastIndexOf(p, "/") + 1, Len(p))

\* os.path.splitext: the extension starts at the last dot of the last
\* component, unless that dot leads the component
Splitext(p) ==
    LET slash == LastIndexOf(p, "/")
        dot == LastIndexOf(p, ".")
    IN  IF dot > slash + 1
        THEN [root |-> SubSeq(p, 1, dot - 1), ext |-> SubSeq(p, dot, Len(p))]
        ELSE [root |-> p, ext |-> <<>>]

\* os.path.join of two components
PathJoin(a, b) ==
    IF b # <<>> /\ b[1] = "/" THEN b
    ELSE IF a = <<>> \/ a[Len(a)] = "/" THEN a \o b
    ELSE a \o <<"/">> \o b

RECURSIVE StrReplaceFrom(_, _, _)
\* str.replace(old, new) for a non-empty old: every occurrence, left to right
StrReplaceFrom(s, old, new) ==
    IF Len(s) < Len(old) THEN s
    ELSE IF SubSeq(s, 1, Len(old)) = old
    THEN new \o StrReplaceFrom(SubSeq(s, Len(old) + 1, Len(s)), old, new)
    ELSE <<Head(s)>> \o StrReplaceFrom(Tail(s), old, new)

RECURSIVE Interleave(_, _)
Interleave(s, new) ==
    IF s = <<>> THEN new ELSE new \o <<Head(s)>> \o Interleave(Tail(s), new)

\* str.replace(old, new); an empty old matches before every character and
\* at the end
StrReplace(s, old, new) ==
    IF old = <<>> THEN Interleave(s, new) ELSE StrReplaceFrom(s, old, new)

ExtLab == <<".", "l", "a", "b">>
ExtTextGrid == <<".", "T", "e", "x", "t", "G", "r", "i", "d">>

(***************************************************************************)
(* File.construct_output_path (classes.py 547-586).  f holds the File's    *)
(* name, wav_path, text_path and relative_path; exists is the answer of    *)
(* os.path.exists for the primary target.                                  *)
(***************************************************************************)
PrimaryTarget(f, output_directory, extension) ==
    LET relative == IF f.relative_path.some /\ f.relative_path.s # <<>>
                    THEN PathJoin(output_directory.s, f.relative_path.s)
                    ELSE output_directory.s
    IN  PathJoin(relative, f.name \o extension)

construct_output_path(f, output_directory, backup_output_directory, enforce_lab, exists) ==
    LET extension == IF enforce_lab THEN ExtLab ELSE ExtTextGrid
    IN  IF ~output_directory.some
        THEN IF ~f.text_path.some
             THEN Splitext(f.wav_path.s).root \o extension
             ELSE f.text_path.s
        ELSE LET tg_path == PrimaryTarget(f, output_directory, extension)
             IN  IF backup_output_directory.some /\ exists
                 THEN StrReplace(tg_path, output_directory.s,
                                 backup_output_directory.s)
                 ELSE tg_path

(***************************************************************************)
(* File.save (classes.py 450-510).  st is the store: the File's paths and  *)
(* aligned flag and, per Utterance object, phone_labels ("None", "empty"   *)
(* for [], "labels") and transcription_text.  The result is what is        *)
(* written: a transcript, or a TextGrid as the sequence of its tiers; the  *)
(* transcript is opened and f.write(None) raises when there is no text.    *)
(***************************************************************************)
SavedFileOf(w, st) ==
    [name |-> w.file.name, wav_path |-> st.wav_path, text_path |-> st.text_path,
     relative_path |-> st.relative_path]

\* the label written for the utterance u
Label(w, st, u) ==
    IF st.labels[u].transcription_text.some
    THEN st.labels[u].transcription_text.s
    ELSE w.utterances[u].text

Speech == <<"s", "p", "e", "e", "c", "h">>

\* the key of a speaker in the dict tiers: Speaker hashes and compares by
\* name; None stands under "speech"
TierKey(w, s) == IF s = 0 THEN Speech ELSE w.speakers[s].name

RECURSIVE TiersOfOrdering(_, _)
\* tiers[speaker] = IntervalTier(speaker.name, []) for the first i speakers
TiersOfOrdering(w, i) ==
    IF i = 0 THEN EmptyCollection
    ELSE Collection_setitem(TiersOfOrdering(w, i - 1),
                            TierKey(w, w.file.speaker_ordering[i]),
                            [name |-> TierKey(w, w.file.speaker_ordering[i]),
                             entryList |-> <<>>])

RECURSIVE FillTiers(_, _, _, _)
\* the loop over self.utterances from position i; a key that is not in
\* tiers raises KeyError
FillTiers(w, st, tiers, i) ==
    IF i > Len(w.file.utterances) THEN [error |-> FALSE, tiers |-> tiers]
    ELSE LET u == w.file.utterances[i].item
             key == TierKey(w, w.utterances[u].speaker)
         IN  IF st.aligned THEN FillTiers(w, st, tiers, i + 1)
             ELSE IF ~Collection_contains(tiers, key)
             THEN [error |-> TRUE, tiers |-> tiers]
             ELSE LET t == Collection_getitem(tiers, key)
                      entry == [start |-> w.utterances[u].begin,
                                end |-> w.utterances[u].end,
                                label |-> Label(w, st, u)]
                  IN  FillTiers(w, st,
                          Collection_setitem(tiers, key,
                              [t EXCEPT !.entryList = Append(@, entry)]),
                          i + 1)

Save_shortcut_ignore_labels(w, st) ==
    /\ Len(w.file.utterances) = 1
    /\ w.utterances[w.file.utterances[1].item].begin = None

\* the single-utterance shortcut is taken
Save_shortcut(w, st) ==
    /\ Len(w.file.utterances) = 1
    /\ LET u == w.file.utterances[1].item
       IN  /\ w.utterances[u].begin = None
           /\ st.labels[u].phone_labels \in {"None", "empty"}

File_save(w, st, output_directory, backup_output_directory, exists) ==
    IF Save_shortcut(w, st)
    THEN [pc |-> "saved", kind |-> "lab",
          path |-> construct_output_path(SavedFileOf(w, st), output_directory,
                                         backup_output_directory, TRUE, exists),
          content |-> Label(w, st, w.file.utterances[1].item),
          raised |-> IF Label(w, st, w.file.utterances[1].item) = NoText
                     THEN "TypeError" ELSE "none",
          tiers |-> <<>>]
    ELSE LET filled == FillTiers(w, st,
                           TiersOfOrdering(w, Len(w.file.speaker_ordering)), 1)
         IN  [pc |-> "saved",
              kind |-> IF filled.error THEN "KeyError" ELSE "textgrid",
              path |-> construct_output_path(SavedFileOf(w, st), output_directory,
                                             backup_output_directory, FALSE, exists),
              content |-> <<>>,
              raised |-> IF filled.error THEN "KeyError" ELSE "none",
              tiers |-> IF filled.error THEN <<>>
                        ELSE [i \in 1..Len(filled.tiers) |-> filled.tiers[i].item]]

(***************************************************************************)
(* Specification of File.load_text on a TextGrid, one loop position at a   *)
(* time: stop_check is a callback of the caller, polled between intervals  *)
(***************************************************************************)
MaxTiers == 2        \* tiers of a TextGrid

ParseFileName == <<"f">>
ParseRootName == <<"r">>

\* names of the interval tiers; tierNameList holds a name once
ParseTierNames == {<<"A">>, <<"A", " ">>, <<"B">>, <<"N", "o", "t", "e", "s">>}

\* the entryList of a tier is a prefix of these intervals: 1.23456 rounds
\* up, 1.50005 is a decimal tie, the second label is blank, the third
\* interval lies beyond the sound file
ParseIntervals ==
    <<[begin |-> 123456, end |-> 150005, text |-> <<"H", "i", " ">>],
      [begin |-> 150005, end |-> 200000, text |-> <<" ">>],
      [begin |-> 250000, end |-> 300000, text |-> <<"a", " ", " ", "B">>]>>

ParseTiers ==
    {[name |-> n, kind |-> "interval", entries |-> SubSeq(ParseIntervals, 1, k)] :
        n \in ParseTierNames, k \in 0..Len(ParseIntervals)}
    \cup {[name |-> <<"P">>, kind |-> "point", entries |-> <<>>]}

ParseTextGrids ==
    {q \in SeqsUpTo(ParseTiers, MaxTiers) :
        \A i, j \in 1..Len(q) : i # j => q[i].name # q[j].name}

\* the sound file (none; 2.00005 s mono; three channels) and whether
\* parse_file made a root speaker
ParseSetups ==
    {[wav |-> FALSE, dur |-> 0, channels |-> 0, root |-> FALSE],
     [wav |-> TRUE, dur |-> 2 * Unit + 5, channels |-> 1, root |-> FALSE],
     [wav |-> TRUE, dur |-> 2 * Unit + 5, channels |-> 1, root |-> TRUE],
     [wav |-> TRUE, dur |-> 2 * Unit + 5, channels |-> 3, root |-> FALSE]}

OthersIdleParse ==
    /\ coll = EmptyCollection /\ written = [n \in CollNames |-> NoEntity]
    /\ naming = IdleNaming /\ cmp = IdleCmp
    /\ restored = IdleRestored /\ lastOp = NoOp
    /\ OthersIdleLater

UnchangedOthersParse ==
    UNCHANGED <<coll, written, naming, cmp, restored, lastOp, tg, store, audio, vocab>>

\* parse_file up to the call of load_text
InitParse ==
    /\ tg \in ParseTextGrids
    /\ \E c \in ParseSetups :
          /\ file = File_init(ParseFileName, c.wav, c.dur, c.channels)
          /\ speakers = IF c.root THEN <<Speaker_init(ParseRootName)>> ELSE <<>>
          /\ parse = ParseStart(IF c.root THEN 1 ELSE 0)
    /\ utterances = <<>>
    /\ OthersIdleParse

ParseCommit(st) ==
    /\ Commit(st.w)
    /\ parse' = st.p
    /\ UNCHANGED out
    /\ UnchangedOthersParse

ParseOpen ==
    /\ parse.pc = "start"
    /\ ParseCommit(LoadText_open([w |-> World, p |-> parse], tg))

ParseTier ==
    /\ parse.pc = "tier"
    /\ ParseCommit(LoadText_tier([w |-> World, p |-> parse], tg))

\* the tier's entries are exhausted
ParseTierEnd ==
    /\ parse.pc = "entry"
    /\ parse.ei > Len(tg[parse.ti].entries)
    /\ ParseCommit(LoadText_interval([w |-> World, p |-> parse], tg, FALSE, 0, 0))

\* one interval: the answer of stop_check and the two roundings
ParseInterval ==
    /\ parse.pc = "entry"
    /\ parse.ei <= Len(tg[parse.ti].entries)
    /\ \E stop \in BOOLEAN,
          rb \in RoundSet(tg[parse.ti].entries[parse.ei].begin),
          re \in RoundSet(tg[parse.ti].entries[parse.ei].end) :
          ParseCommit(LoadText_interval([w |-> World, p |-> parse], tg, stop, rb, re))

\* the File as parse_file leaves it: not aligned, its utterances without
\* phone labels or transcription (File.__init__, Utterance.__init__)
FreshStore(w) ==
    [pc |-> "file", wav_path |-> NoStr,
     text_path |-> Str(<<"d", "/">> \o w.file.name \o ExtTextGrid),
     relative_path |-> NoStr, aligned |-> FALSE,
     labels |-> [k \in 1..Len(w.utterances) |->
                    [phone_labels |-> "None", transcription_text |-> NoStr]]]

\* file.save() of the parsed File, in place
ParseSave ==
    /\ parse.pc = "done"
    /\ out = IdleOut
    /\ out' = [pc |-> "saved",
               result |-> File_save(World, FreshStore(World), NoStr, NoStr, FALSE)]
    /\ UNCHANGED <<speakers, utterances, file, parse>>
    /\ UnchangedOthersParse

NextParse == ParseOpen \/ ParseTier \/ ParseTierEnd \/ ParseInterval \/ ParseSave

SpecParse == InitParse /\ [][NextParse]_vars

\* trimmed names of the tiers that are interval tiers and not "notes"
RECURSIVE SpeakerTierNames(_)
SpeakerTierNames(tgv) ==
    IF tgv = <<>> THEN <<>>
    ELSE (IF Skipped(Head(tgv)) THEN <<>> ELSE <<Strip(Head(tgv).name)>>)
         \o SpeakerTierNames(Tail(tgv))

\* the intervals of the eligible tiers that lie before interval ei of tier
\* ti, in file order, counted from tier t
RECURSIVE IntervalsBefore(_, _, _, _)
IntervalsBefore(tgv, ti, ei, t) ==
    IF t > Len(tgv) \/ t > ti THEN <<>>
    ELSE LET n == IF t < ti THEN Len(tgv[t].entries) ELSE ei - 1
             here == IF Skipped(tgv[t]) THEN <<>>
                     ELSE [e \in 1..n |-> [ti |-> t, ei |-> e]]
         IN  here \o IntervalsBefore(tgv, ti, ei, t + 1)

\* the label of interval x has a word
HasWords(x) ==
    \E i \in 1..Len(tg[x.ti].entries[x.ei].text) :
        tg[x.ti].entries[x.ei].text[i] # " "

WithWords(q) == SelectSeq(q, HasWords)

Sources(produced) ==
    [i \in 1..Len(produced) |-> [ti |-> produced[i].ti, ei |-> produced[i].ei]]

\* the interval the loops stand at
ParsePos ==
    IF parse.pc \in {"entry", "stopped"} THEN <<parse.ti, parse.ei>>
    ELSE <<parse.ti, 1>>

\* the tiers whose loop body was entered
TiersEntered ==
    IF parse.pc \in {"entry", "stopped"} THEN parse.ti ELSE parse.ti - 1

UtteranceKeys(w) == [i \in 1..Len(w.file.utterances) |-> w.file.utterances[i].key]

C9_StopLeavesPrefix ==
    parse.pc \in {"tier", "entry", "stopped", "done"} =>
        LET before == IntervalsBefore(tg, ParsePos[1], ParsePos[2], 1)
        IN  /\ Sources(parse.produced) = WithWords(before)
            /\ parse.polls = Len(before) + (IF parse.pc = "stopped" THEN 1 ELSE 0)
            /\ parse.pc = "stopped" => parse.ei <= Len(tg[parse.ti].entries)
            /\ Len(utterances) = Len(parse.produced)
            /\ UtteranceKeys(World) =
                   Distinct([i \in 1..Len(parse.produced) |->
                                UName(World, parse.produced[i].u)])
            /\ parse.root = 0 =>
                   /\ OrderingNames(World) =
                          Distinct(SpeakerTierNames(SubSeq(tg, 1, TiersEntered)))
                   /\ Len(speakers) =
                          Len(SpeakerTierNames(SubSeq(tg, 1, TiersEntered)))

\* load_text returned on stop_check after an utterance was made and before an
\* interval with words
C9_Witness ==
    /\ parse.pc = "stopped"
    /\ parse.produced # <<>>
    /\ HasWords([ti |-> parse.ti, ei |-> parse.ei])

\* C10: an utterance made from an interval stores the begin rounded to
\* NDigits decimals and, as end, the end rounded to NDigits decimals or the
\* file's duration when that is smaller; the end is at most the duration.
C10_RoundedAndClamped ==
    parse.pc \in {"tier", "entry", "stopped", "done"} =>
        \A i \in 1..Len(parse.produced) :
            LET x == parse.produced[i]
                raw == tg[x.ti].entries[x.ei]
                u == utterances[x.u]
                duration == File_duration(file)
            IN  /\ u.begin.kind = "float"
                /\ u.begin.v \in RoundSet(raw.begin)
                /\ u.begin.v % 10 = 0
                /\ \E r \in RoundSet(raw.end) :
                      u.end = IF NumVal(duration) < r THEN duration ELSE PyFloat(r)
                /\ NumVal(u.end) <= NumVal(duration)

\* 1.23456 was stored as 1.2346, and an end beyond the sound file's duration
\* as the duration
C10_Witness ==
    /\ parse.pc = "done" /\ file.wav_path
    /\ \E i \in 1..Len(parse.produced) :
          LET x == parse.produced[i]
          IN  /\ tg[x.ti].entries[x.ei].begin = 123456
              /\ utterances[x.u].begin = PyFloat(123460)
    /\ \E i \in 1..Len(parse.produced) :
          LET x == parse.produced[i]
          IN  /\ tg[x.ti].entries[x.ei].end > file.wav_duration
              /\ utterances[x.u].end = File_duration(file)

(***************************************************************************)
(* Specification of File.save and File.construct_output_path               *)
(***************************************************************************)
MaxSaveUtt == 2      \* utterances added to the File that is saved

\* the utterances (both boundaries or none): whole-file; whole-file without
\* text; a segment; aligned; with an empty phone_labels list and a
\* transcription
SaveShapes ==
    {[begin |-> None, end |-> None, phone_labels |-> "None",
      transcription_text |-> NoStr, text |-> <<"h", "i">>],
     [begin |-> None, end |-> None, phone_labels |-> "None",
      transcription_text |-> NoStr, text |-> NoText],
     [begin |-> PyFloat(0), end |-> PyFloat(Unit), phone_labels |-> "None",
      transcription_text |-> NoStr, text |-> <<"h", "i">>],
     [begin |-> None, end |-> None, phone_labels |-> "labels",
      transcription_text |-> NoStr, text |-> <<"h", "i">>],
     [begin |-> None, end |-> None, phone_labels |-> "empty",
      transcription_text |-> Str(<<"x">>), text |-> <<"h", "i">>]}

\* wav_path, text_path and relative_path of the File
SavePaths ==
    {[wav_path |-> Str(<<"d", "/", "f", ".", "w", "a", "v">>), text_path |-> NoStr,
      relative_path |-> NoStr],
     [wav_path |-> Str(<<"d", "/", "f", ".", "w", "a", "v">>),
      text_path |-> Str(<<"d", "/", "f", ".", "l", "a", "b">>),
      relative_path |-> Str(<<"r">>)],
     [wav_path |-> NoStr,
      text_path |-> Str(<<"d", "/", "f">> \o ExtTextGrid),
      relative_path |-> Str(<<>>)],
     [wav_path |-> Str(<<"d", "/", "o", ".", "w", "a", "v">>),
      text_path |-> Str(<<"d", "/", "o">> \o ExtTextGrid),
      relative_path |-> Str(<<"o">>)]}

SaveOutputDirs == {NoStr, Str(<<"o">>)}
SaveBackupDirs == {NoStr, Str(<<"b">>)}

\* File.__init__: the name is the base name of the sound file, else of the
\* transcript, without its extension
File_name_of(paths) ==
    IF paths.wav_path.some THEN Splitext(Basename(paths.wav_path.s)).root
    ELSE Splitext(Basename(paths.text_path.s)).root

RECURSIVE BuildSaved(_, _, _, _)
\* the File after Utterance(...) and add_utterance for the first i shapes;
\* the speaker of utterance k is the first one, or the k-th one
BuildSaved(w0, shapes, each, i) ==
    IF i = 0 THEN w0
    ELSE LET w1 == BuildSaved(w0, shapes, each, i - 1)
             w2 == Utterance_init(w1, IF each THEN i ELSE 1,
                                  shapes[i].begin, shapes[i].end, shapes[i].text)
         IN  File_add_utterance(w2, Len(w2.utterances))

InitSave ==
    /\ \E paths \in SavePaths, shapes \in SeqsUpTo(SaveShapes, MaxSaveUtt),
          each \in BOOLEAN, aligned \in BOOLEAN, pre \in {"none", "speaker", "None"} :
          LET n == IF each THEN Len(shapes) ELSE 1
              f0 == File_init(File_name_of(paths), paths.wav_path.some, 2 * Unit, 1)
              spk == [k \in 1..n |-> Speaker_init(GraphSpeakerNames[((k - 1) % 2) + 1])]
              w0 == [speakers |-> spk, utterances |-> <<>>, file |-> f0]
              w1 == IF pre = "speaker" THEN File_add_speaker(w0, n)
                    ELSE IF pre = "None"
                    THEN [w0 EXCEPT !.file.speaker_ordering = <<0>>]
                    ELSE w0
              w == BuildSaved(w1, shapes, each, Len(shapes))
          IN  /\ each => Len(shapes) > 1
              /\ pre = "None" => shapes = <<>>
              /\ speakers = w.speakers /\ utterances = w.utterances /\ file = w.file
              /\ store = [pc |-> "file", wav_path |-> paths.wav_path,
                          text_path |-> paths.text_path,
                          relative_path |-> paths.relative_path,
                          aligned |-> aligned,
                          labels |-> [k \in 1..Len(shapes) |->
                              [phone_labels |-> shapes[k].phone_labels,
                               transcription_text |-> shapes[k].transcription_text]]]
    /\ out = IdleOut
    /\ coll = EmptyCollection /\ written = [n \in CollNames |-> NoEntity]
    /\ naming = IdleNaming /\ cmp = IdleCmp
    /\ restored = IdleRestored /\ lastOp = NoOp
    /\ tg = IdleTg /\ parse = IdleParse
    /\ audio = IdleAudio /\ vocab = IdleVocab

UnchangedOthersSave ==
    UNCHANGED <<coll, written, naming, cmp, speakers, utterances, file, restored,
                lastOp, tg, parse, store, audio, vocab>>

\* file.save(output_directory, backup_output_directory); exists answers
\* os.path.exists for the primary target
Save ==
    /\ out = IdleOut
    /\ \E od \in SaveOutputDirs, bd \in SaveBackupDirs, exists \in BOOLEAN :
          out' = [result |-> File_save(World, store, od, bd, exists),
                  pc |-> "saved", output_directory |-> od,
                  backup_output_directory |-> bd, exists |-> exists,
                  enforce_lab |-> Save_shortcut(World, store)]
    /\ UnchangedOthersSave

\* file.construct_output_path(output_directory, backup_output_directory,
\* enforce_lab)
ConstructOutputPath ==
    /\ out = IdleOut
    /\ \E od \in SaveOutputDirs, bd \in SaveBackupDirs, exists \in BOOLEAN,
          enforce_lab \in BOOLEAN :
          out' = [result |-> [path |-> construct_output_path(
                                  SavedFileOf(World, store), od, bd, enforce_lab,
                                  exists)],
                  pc |-> "path", output_directory |-> od,
                  backup_output_directory |-> bd, exists |-> exists,
                  enforce_lab |-> enforce_lab]
    /\ UnchangedOthersSave

NextSave == Save \/ ConstructOutputPath

SpecSave == InitSave /\ [][NextSave]_vars

\* the file has exactly one utterance, with neither begin nor end and
\* without phone labels
OneWholeUnalignedUtterance ==
    /\ Len(file.utterances) = 1
    /\ LET u == file.utterances[1].item
       IN  /\ utterances[u].begin = None
           /\ utterances[u].end = None
           /\ store.labels[u].phone_labels # "labels"

TierNames(doc) == [i \in 1..Len(doc.tiers) |-> doc.tiers[i].name]

\* C12: the TextGrid that save writes has one tier per speaker of
\* speaker_ordering, named by the speaker and in that order, or the single
\* tier "speech" when speaker_ordering is empty.
C12_TierPerSpeaker ==
    (out.pc = "saved" /\ out.result.kind # "lab") =>
        /\ out.result.kind = "textgrid"
        /\ TierNames(out.result) =
               IF file.speaker_ordering = <<>> THEN <<Speech>>
               ELSE [i \in 1..Len(file.speaker_ordering) |->
                        TierKey(World, file.speaker_ordering[i])]

EndsWith(s, suffix) ==
    Len(s) >= Len(suffix) /\ SubSeq(s, Len(s) - Len(suffix) + 1, Len(s)) = suffix

\* C13: when save takes the single-utterance shortcut, the path it writes to
\* ends in ".lab"; without an output directory it is the transcript path, or
\* the sound file's path with the extension replaced when there is none.
C13_ShortcutWritesLab ==
    (out.pc = "saved" /\ out.result.kind = "lab") =>
        /\ EndsWith(out.result.path, ExtLab)
        /\ ~out.output_directory.some =>
               out.result.path =
                   IF store.text_path.some THEN store.text_path.s
                   ELSE Splitext(store.wav_path.s).root \o ExtLab

\* C14: construct_output_path with an output and a backup directory returns
\* <backup>/<relative path>/<name><ext> when the primary target
\* <output>/<relative path>/<name><ext> exists, and the primary target when
\* it does not.
C14_BackupRedirect ==
    (out.pc = "path" /\ out.output_directory.some
        /\ out.backup_output_directory.some) =>
        LET f == SavedFileOf(World, store)
            extension == IF out.enforce_lab THEN ExtLab ELSE ExtTextGrid
        IN  out.result.path =
                IF out.exists
                THEN PrimaryTarget(f, out.backup_output_directory, extension)
                ELSE PrimaryTarget(f, out.output_directory, extension)

\* the positions of the interval tiers not named "notes"
SourceTiers ==
    LET Eligible(t) == ~Skipped(tg[t])
    IN  SelectSeq([t \in 1..Len(tg) |-> t], Eligible)

\* C15: reading a TextGrid without a root speaker and saving the File gives
\* a TextGrid with the same tiers (the interval tiers not named "notes"),
\* under their trimmed names and in the same order, each holding one interval
\* per interval with words of its source tier.
C15_RoundTrip ==
    (parse.pc = "done" /\ parse.root = 0 /\ out.pc = "saved") =>
        /\ out.result.kind = "textgrid"
        /\ TierNames(out.result) =
               [k \in 1..Len(SourceTiers) |-> Strip(tg[SourceTiers[k]].name)]
        /\ \A k \in 1..Len(SourceTiers) :
              Len(out.result.tiers[k].entryList) =
                  Cardinality({e \in 1..Len(tg[SourceTiers[k]].entries) :
                                  HasWords([ti |-> SourceTiers[k], ei |-> e])})

(***************************************************************************)
(* The File's cached audio info (classes.py 76-81, 346-347, 414-437,       *)
(* 694-753).  a holds wav_path (is it set), wav_info (0 for None, else the *)
(* version of the info that was read), waveform (is it loaded), disk (the  *)
(* version of the sound file's info on disk), and the history: calls of    *)
(* get_wav_info made by parse_file and the accessors (implicit) and by    *)
(* load_info called directly (explicit), and the last value returned.     *)
(***************************************************************************)
AudioAccessors == {"duration", "num_channels", "sample_rate", "format", "sox_string"}

\* helper.get_wav_info(wav_path): the info of the sound file as it is on disk
get_wav_info(a) == a.disk

\* File.load_info
File_load_info(a) ==
    IF a.wav_path THEN [a EXCEPT !.wav_info = get_wav_info(a)] ELSE a

\* what an accessor returns: the int 0, a TypeError (None is subscripted),
\* or the attribute of the info of version v; cached is wav_info as the
\* accessor found it and disk the version on disk at that time
Returned(a, attr, cached) ==
    [attr |-> attr, disk |-> a.disk, cached |-> cached,
     kind |-> IF a.wav_info = 0 THEN "TypeError" ELSE "info",
     v |-> a.wav_info]

\* an accessor that reads the sound file on every access
File_access_reload(a, attr) ==
    IF ~a.wav_path /\ attr \in {"duration", "num_channels", "sample_rate"}
    THEN [a EXCEPT !.last = [attr |-> attr, disk |-> a.disk, cached |-> a.wav_info,
                          kind |-> "zero", v |-> 0]]
    ELSE LET a1 == [File_load_info(a) EXCEPT
                        !.implicit = IF a.wav_path THEN @ + 1 ELSE @]
         IN  [a1 EXCEPT !.last = Returned(a1, attr, a.wav_info)]

\* the properties duration, num_channels, sample_rate, format, sox_string
File_access(a, attr) ==
    IF ~a.wav_path /\ attr \in {"duration", "num_channels", "sample_rate"}
    THEN [a EXCEPT !.last = [attr |-> attr, disk |-> a.disk, cached |-> a.wav_info,
                          kind |-> "zero", v |-> 0]]
    ELSE LET a1 == IF a.wav_info = 0
                   THEN [File_load_info(a) EXCEPT
                            !.implicit = IF a.wav_path THEN @ + 1 ELSE @]
                   ELSE a
         IN  [a1 EXCEPT !.last = Returned(a1, attr, a.wav_info)]

\* File.__getstate__: the fields of the record that concern the sound file
File_getstate_audio(a) ==
    [wav_path |-> a.wav_path, wav_info |-> a.wav_info, waveform |-> a.waveform]

\* File.__setstate__ of a new File object
File_setstate_audio(a, state) ==
    [a EXCEPT !.wav_path = state.wav_path, !.wav_info = state.wav_info,
              !.waveform = state.waveform]

(***************************************************************************)
(* Specification of the audio info cache                                   *)
(***************************************************************************)
MaxLoads == 2        \* direct calls of load_info; changes of the sound file

NoAccess == [attr |-> "none", disk |-> 0, cached |-> 0, kind |-> "none", v |-> 0]

\* File(wav_path, text_path) for an existing sound file, or without one
InitAudio ==
    /\ \E has_wav \in BOOLEAN :
          audio = [pc |-> "new", wav_path |-> has_wav, wav_info |-> 0,
                   waveform |-> FALSE, disk |-> 1, implicit |-> 0,
                   explicit |-> 0, last |-> NoAccess]
    /\ coll = EmptyCollection /\ written = [n \in CollNames |-> NoEntity]
    /\ naming = IdleNaming /\ cmp = IdleCmp
    /\ speakers = <<>> /\ utterances = <<>> /\ file = IdleFile
    /\ restored = IdleRestored /\ lastOp = NoOp
    /\ tg = IdleTg /\ parse = IdleParse
    /\ store = IdleStore /\ out = IdleOut /\ vocab = IdleVocab

UnchangedOthersAudio ==
    UNCHANGED <<coll, written, naming, cmp, speakers, utterances, file, restored,
                lastOp, tg, parse, store, out, vocab>>

\* parse_file, lines 76-81: the info is read when the File has a sound file
AudioParseFile ==
    /\ audio.pc = "new"
    /\ audio' = IF audio.wav_path
                THEN [File_load_info(audio) EXCEPT !.implicit = @ + 1,
                                                   !.pc = "used"]
                ELSE [audio EXCEPT !.pc = "used"]
    /\ UnchangedOthersAudio

AudioAccess ==
    /\ \E attr \in AudioAccessors :
          audio' = [File_access(audio, attr) EXCEPT !.pc = "used"]
    /\ UnchangedOthersAudio

\* file.load_info() called directly
AudioLoadInfo ==
    /\ audio.explicit < MaxLoads
    /\ audio' = [File_load_info(audio) EXCEPT !.explicit = @ + 1, !.pc = "used"]
    /\ UnchangedOthersAudio

\* File.load_wav_data
AudioLoadWavData ==
    /\ audio.wav_path
    /\ ~audio.waveform
    /\ audio' = [audio EXCEPT !.waveform = TRUE, !.pc = "used"]
    /\ UnchangedOthersAudio

\* the sound file is rewritten on disk
AudioDiskChange ==
    /\ audio.wav_path
    /\ audio.disk <= MaxLoads
    /\ audio' = [audio EXCEPT !.disk = @ + 1]
    /\ UnchangedOthersAudio

\* pickle round trip: the history of the new File object starts empty
AudioRestore ==
    /\ audio.pc = "used"
    /\ audio' = [File_setstate_audio(audio, File_getstate_audio(audio)) EXCEPT
                    !.pc = "restored", !.implicit = 0, !.explicit = 0,
                    !.last = NoAccess]
    /\ UnchangedOthersAudio

NextAudio ==
    \/ AudioParseFile \/ AudioAccess \/ AudioLoadInfo \/ AudioLoadWavData
    \/ AudioDiskChange \/ AudioRestore

SpecAudio == InitAudio /\ [][NextAudio]_vars

\* C16: the File rebuilt from a snapshot has its cached audio info and its
\* waveform unset.
C16_RestoreDropsCaches ==
    audio.pc = "restored" => (audio.wav_info = 0 /\ ~audio.waveform)

\* C17: for a File with a sound file, parse_file and the accessors together
\* read the audio info at most once, and an accessor returns the attribute
\* of the cached info.
C17_InfoReadOnce ==
    audio.wav_path =>
        /\ audio.implicit <= 1
        /\ audio.last.kind # "none" =>
               /\ audio.last.kind = "info"
               /\ audio.last.cached # 0 => audio.last.v = audio.last.cached

\* an accessor returned the cached value after the sound file had changed
C17_Witness ==
    /\ audio.wav_path /\ audio.implicit = 1
    /\ audio.last.kind = "info"
    /\ audio.last.v = audio.last.cached
    /\ audio.last.v # audio.last.disk

(***************************************************************************)
(* Speaker.word_set (classes.py 242-264) without a dictionary.  A table of *)
(* word counts is a Counter: a function from the words seen to their       *)
(* counts.  wc is word_counts of every Speaker object.                     *)
(***************************************************************************)
EmptyCounter == [x \in {} |-> 0]

\* Counter.update(words): one more for each element of the sequence
RECURSIVE Counter_update(_, _)
Counter_update(c, ws) ==
    IF ws = <<>> THEN c
    ELSE LET x == Head(ws)
             c1 == IF x \in DOMAIN c THEN [c EXCEPT ![x] = @ + 1]
                   ELSE [y \in DOMAIN c \cup {x} |-> IF y = x THEN 1 ELSE c[y]]
         IN  Counter_update(c1, Tail(ws))

RECURSIVE CountFrom(_, _, _, _)
\* the loop over self.utterances from position i; u.text.split() raises
\* AttributeError when the text is None
CountFrom(w, s, c, i) ==
    IF i > Len(w.speakers[s].utterances) THEN [error |-> FALSE, counts |-> c]
    ELSE LET u == w.speakers[s].utterances[i].item
         IN  IF w.utterances[u].text = NoText THEN [error |-> TRUE, counts |-> c]
             ELSE CountFrom(w, s,
                      Counter_update(c, SplitFrom(w.utterances[u].text, <<>>)),
                      i + 1)

\* word_set that accumulates into the table of the earlier calls
Speaker_word_set_keep(w, wc, s) ==
    LET r == CountFrom(w, s, wc[s], 1)
    IN  [word_counts |-> [wc EXCEPT ![s] = r.counts],
         raised |-> r.error,
         result |-> IF r.error THEN {} ELSE DOMAIN r.counts]

\* self.word_counts = Counter(); the counts of the utterances; the set of
\* the words counted
Speaker_word_set(w, wc, s) ==
    LET r == CountFrom(w, s, EmptyCounter, 1)
    IN  [word_counts |-> [wc EXCEPT ![s] = r.counts],
         raised |-> r.error,
         result |-> IF r.error THEN {} ELSE DOMAIN r.counts]

(***************************************************************************)
(* Specification of the word-frequency table: two speakers and MaxWordUtt  *)
(* utterances, registered, removed and merged through the Speaker methods, *)
(* with word_set called at any time.  vocab.last is the speaker of the     *)
(* word_set call that has just finished, 0 after any other operation.      *)
(***************************************************************************)
MaxWordUtt == 2

WordTexts == {<<"a", " ", "b">>, <<"b", " ", " ", "b">>, NoText}
\* utterance n of the heap: the owners alternate, and the second utterance
\* of a speaker is a segment, so that all names differ
WordOwner(n) == ((n - 1) % 2) + 1
WordBoundary(n) ==
    IF n <= 2 THEN <<None, None>> ELSE <<PyFloat(0), PyFloat(Unit)>>

\* the heaps of two speakers and n utterances, nothing registered yet
RECURSIVE WordWorlds(_)
WordWorlds(n) ==
    IF n = 0
    THEN {[speakers |-> <<Speaker_init(GraphSpeakerNames[1]),
                          Speaker_init(GraphSpeakerNames[2])>>,
           utterances |-> <<>>,
           file |-> File_init(GraphFileName, TRUE, 2 * Unit, 1)]}
    ELSE {Utterance_init(w, WordOwner(n), WordBoundary(n)[1],
                         WordBoundary(n)[2], text) :
              w \in WordWorlds(n - 1), text \in WordTexts}

OthersIdleWords ==
    /\ coll = EmptyCollection /\ written = [n \in CollNames |-> NoEntity]
    /\ naming = IdleNaming /\ cmp = IdleCmp
    /\ restored = IdleRestored /\ lastOp = NoOp
    /\ tg = IdleTg /\ parse = IdleParse
    /\ store = IdleStore /\ out = IdleOut /\ audio = IdleAudio

UnchangedOthersWords ==
    UNCHANGED <<coll, written, naming, cmp, restored, lastOp, tg, parse,
                store, out, audio>>

\* Speaker.__init__: self.word_counts = Counter()
InitWords ==
    /\ \E w \in WordWorlds(MaxWordUtt) :
          /\ speakers = w.speakers
          /\ utterances = w.utterances
          /\ file = w.file
    /\ vocab = [pc |-> "on",
                word_counts |-> [s \in 1..2 |-> EmptyCounter],
                last |-> 0, raised |-> FALSE, result |-> {}]
    /\ OthersIdleWords

NotAfterWordSet == [vocab EXCEPT !.last = 0, !.raised = FALSE, !.result = {}]

WordsAddUtterance ==
    \E s \in SpkIds, u \in UttIds :
        /\ Commit(Speaker_add_utterance(World, s, u))
        /\ vocab' = NotAfterWordSet
        /\ UnchangedOthersWords

\* del of a missing key raises KeyError and changes nothing
WordsDeleteUtterance ==
    \E s \in SpkIds, u \in UttIds :
        /\ Collection_contains(speakers[s].utterances, UName(World, u))
        /\ Commit(Speaker_delete_utterance(World, s, u))
        /\ vocab' = NotAfterWordSet
        /\ UnchangedOthersWords

WordsMerge ==
    \E a \in SpkIds, b \in SpkIds :
        /\ Commit(Speaker_merge(World, a, b))
        /\ vocab' = NotAfterWordSet
        /\ UnchangedOthersWords

\* word_set(): the table is assigned before the loop, so a call that raises
\* leaves the counts made so far
WordsWordSet ==
    \E s \in SpkIds :
        LET r == Speaker_word_set(World, vocab.word_counts, s)
        IN  /\ vocab' = [vocab EXCEPT !.word_counts = r.word_counts,
                                      !.last = s,
                                      !.raised = r.raised,
                                      !.result = r.result]
            /\ UNCHANGED <<speakers, utterances, file>>
            /\ UnchangedOthersWords

NextWords ==
    \/ WordsAddUtterance \/ WordsDeleteUtterance \/ WordsMerge \/ WordsWordSet

SpecWords == InitWords /\ [][NextWords]_vars

\* the tokens of the utterances in the collection of s, one sequence
RECURSIVE TokensFrom(_, _)
TokensFrom(items, i) ==
    IF i > Len(items) THEN <<>>
    ELSE (IF utterances[items[i]].text = NoText THEN <<>>
          ELSE SplitFrom(utterances[items[i]].text, <<>>))
         \o TokensFrom(items, i + 1)

TokensOf(s) == TokensFrom(Collection_iter(speakers[s].utterances), 1)

\* how often each token occurs among them
TokenCounts(s) ==
    LET toks == TokensOf(s)
    IN  [x \in {toks[i] : i \in DOMAIN toks} |->
            Cardinality({i \in DOMAIN toks : toks[i] = x})]

\* C18: after any sequence of add_utterance, delete_utterance, merge and
\* earlier word_set calls, a word_set call that returns leaves the table
\* equal to the whitespace-token counts of exactly the utterances now in the
\* speaker's collection and returns the set of these tokens; and a further
\* call, whether it returns or raises, gives the same table and the same set.
C18_WordSetFullReplace ==
    vocab.last # 0 =>
        LET s == vocab.last
            again == Speaker_word_set(World, vocab.word_counts, s)
        IN  /\ ~vocab.raised =>
                  /\ vocab.word_counts[s] = TokenCounts(s)
                  /\ vocab.result = DOMAIN TokenCounts(s)
            /\ again.word_counts = vocab.word_counts
            /\ again.raised = vocab.raised
            /\ again.result = vocab.result

\* C18 witness: word_set has returned for a speaker that holds two
\* utterances, after an earlier call had left counts that are now too high
C18_Witness ==
    /\ vocab.last # 0
    /\ ~vocab.raised
    /\ Len(speakers[vocab.last].utterances) = 2
    /\ vocab.result # {}
    /\ \E t \in SpkIds \ {vocab.last} :
          \E x \in DOMAIN vocab.word_counts[t] :
              x \notin DOMAIN TokenCounts(t)

(***************************************************************************)
(* Membership of utterances in the collections of the File and of the      *)
(* Speakers, in the entity-graph specification                             *)
(***************************************************************************)
\* the utterance objects a collection holds
Members(c) == {c[i].item : i \in 1..Len(c)}

\* C19: every step that puts an utterance into the file's utterance
\* collection (load_text for a plain transcript, a tiered annotation or no
\* transcript, and any later File.add_utterance) leaves that utterance in
\* the utterance collection of its owning speaker as well.
C19_FileMembersWithOwner ==
    [][\A u \in 1..Len(utterances') :
          (/\ u \in Members(file'.utterances)
           /\ u \notin Members(file.utterances))
          => u \in Members(speakers'[utterances'[u].speaker].utterances)]_vars

\* C20: an utterance is in the collection of at most one speaker, its owning
\* speaker, after any sequence of set_speaker, merge, add_utterance and
\* delete_utterance; in particular set_speaker takes it out of the
\* collection of the speaker it leaves.
C20_OnlyWithOwner ==
    \A s \in SpkIds : \A u \in Members(speakers[s].utterances) :
        utterances[u].speaker = s

(***************************************************************************)
(* Utterance.duration (classes.py 949-954), in units of 10^-5 s            *)
(***************************************************************************)
Utterance_duration(w, u) ==
    IF w.utterances[u].begin # None /\ w.utterances[u].end # None
    THEN NumVal(w.utterances[u].end) - NumVal(w.utterances[u].begin)
    ELSE NumVal(File_duration(w.file))

\* C21: every utterance that load_text has made from an interval of a
\* TextGrid has 0 <= begin <= end, so its duration is not negative; also
\* when the file has no sound file (duration 0) and when the interval starts
\* at or beyond the file's duration.
C21_NonNegativeExtent ==
    parse.pc \in {"tier", "entry", "stopped", "done"} =>
        \A i \in 1..Len(parse.produced) :
            LET u == parse.produced[i].u
            IN  /\ 0 <= NumVal(utterances[u].begin)
                /\ NumVal(utterances[u].begin) <= NumVal(utterances[u].end)
                /\ Utterance_duration(World, u) >= 0

====
